---- MODULE Spec2Model ----
(***************************************************************************)
(* A model of gcli (src/gcli/main.py): the commit command, its diff        *)
(* extractor, the two-tier commit-message generation (local inference      *)
(* client with output validation, heuristic classifier as fallback), the   *)
(* interactive confirmation and the commit/push executor; the init and     *)
(* issue commands behind the same authentication gate; and the auth and    *)
(* config commands with the configuration record they change.              *)
(*                                                                         *)
(* Python strings are modelled as sequences of one-character strings, so   *)
(* that strip, split, lower, startswith and "in" are computed character by *)
(* character as the interpreter computes them.                             *)
(***************************************************************************)
EXTENDS Integers, Sequences, FiniteSets, TLC

(***************************************************************************)
(* Bounds of the model.                                                    *)
(***************************************************************************)
\* longest raw model output, in lines, that the validation is applied to
MaxLines == 2
\* longest diff, in lines, that the heuristic classifier is applied to
MaxDiffLines == 2

(***************************************************************************)
(* Python values.                                                          *)
(***************************************************************************)
\* Python's None: a value that is not a string of characters
None == <<"<None>">>
\* a value that is neither None nor a string (an int, say)
IntVal == <<"<int>">>
\* isinstance(v, str)
IsStr(v) == v # None /\ v # IntVal
\* Python truthiness of an Optional[str]
Truthy(v) == v # None /\ v # <<>>

(***************************************************************************)
(* str methods.                                                            *)
(***************************************************************************)
Whitespace == {" ", "\t", "\n", "\r"}
\* the grave accent U+0060, a character the string syntax of TLA+ cannot spell
Backtick == "<grave>"
QuoteChars == {"\"", "'", Backtick}

UpperCase ==
    <<"A","B","C","D","E","F","G","H","I","J","K","L","M",
      "N","O","P","Q","R","S","T","U","V","W","X","Y","Z">>
LowerCase ==
    <<"a","b","c","d","e","f","g","h","i","j","k","l","m",
      "n","o","p","q","r","s","t","u","v","w","x","y","z">>

LowerChar(c) ==
    IF \E i \in 1..26 : UpperCase[i] = c
    THEN LowerCase[CHOOSE i \in 1..26 : UpperCase[i] = c]
    ELSE c

\* s.lower()
Lower(s) == [i \in 1..Len(s) |-> LowerChar(s[i])]

\* s.lstrip(chars)
RECURSIVE LStrip(_, _)
LStrip(s, chars) ==
    IF s # <<>> /\ Head(s) \in chars THEN LStrip(Tail(s), chars) ELSE s

\* s.rstrip(chars)
RECURSIVE RStrip(_, _)
RStrip(s, chars) ==
    IF s # <<>> /\ s[Len(s)] \in chars
    THEN RStrip(SubSeq(s, 1, Len(s) - 1), chars)
    ELSE s

\* s.strip(chars); s.strip() is StripChars(s, Whitespace)
StripChars(s, chars) == RStrip(LStrip(s, chars), chars)

\* s.startswith(p)
StartsWith(s, p) == Len(p) <= Len(s) /\ SubSeq(s, 1, Len(p)) = p

\* sub in s
Contains(s, sub) ==
    \E i \in 0..(Len(s) - Len(sub)) : SubSeq(s, i + 1, i + Len(sub)) = sub

\* index of the first occurrence of character c in s, 0 when absent
FirstIndex(s, c) ==
    IF \E i \in 1..Len(s) : s[i] = c
    THEN CHOOSE i \in 1..Len(s) : s[i] = c /\ \A j \in 1..(i - 1) : s[j] # c
    ELSE 0

\* s.split(c): the pieces of s between the occurrences of character c
RECURSIVE Split(_, _)
Split(s, c) ==
    LET i == FirstIndex(s, c)
    IN  IF i = 0 THEN <<s>>
        ELSE <<SubSeq(s, 1, i - 1)>> \o Split(SubSeq(s, i + 1, Len(s)), c)

\* s.split(c, 1)[0]
SplitFirst(s, c) ==
    LET i == FirstIndex(s, c)
    IN  IF i = 0 THEN s ELSE SubSeq(s, 1, i - 1)

\* c.join(lines)
RECURSIVE Join(_, _)
Join(lines, c) ==
    IF lines = <<>> THEN <<>>
    ELSE IF Len(lines) = 1 THEN lines[1]
    ELSE lines[1] \o <<c>> \o Join(Tail(lines), c)

\* n copies of character c
Rep(c, n) == [i \in 1..n |-> c]

(***************************************************************************)
(* String literals of the program.                                         *)
(***************************************************************************)
T_feat == <<"f","e","a","t">>
T_fix == <<"f","i","x">>
T_docs == <<"d","o","c","s">>
T_style == <<"s","t","y","l","e">>
T_refactor == <<"r","e","f","a","c","t","o","r">>
T_test == <<"t","e","s","t">>
T_chore == <<"c","h","o","r","e">>

valid_types == {T_feat, T_fix, T_docs, T_style, T_refactor, T_test, T_chore}

K_def == <<"d","e","f"," ">>
K_class == <<"c","l","a","s","s"," ">>
K_bug == <<"b","u","g">>
K_import == <<"i","m","p","o","r","t">>
K_md == <<".","m","d">>
K_readme == <<"r","e","a","d","m","e">>
K_requirements == <<"r","e","q","u","i","r","e","m","e","n","t","s">>
K_package == <<"p","a","c","k","a","g","e">>
K_openai == <<"o","p","e","n","a","i">>
K_mainpy == <<"m","a","i","n",".","p","y">>
K_plus == <<"+">>
K_plus3 == <<"+","+","+">>
K_minus == <<"-">>
K_minus3 == <<"-","-","-">>

M_update_codebase ==
    <<"c","h","o","r","e",":"," ","u","p","d","a","t","e"," ",
      "c","o","d","e","b","a","s","e">>
M_ai ==
    <<"f","e","a","t",":"," ","a","d","d"," ","A","I","-","p","o","w","e","r",
      "e","d"," ","c","o","m","m","i","t"," ","m","e","s","s","a","g","e"," ",
      "g","e","n","e","r","a","t","i","o","n">>
M_deps ==
    <<"c","h","o","r","e",":"," ","u","p","d","a","t","e"," ",
      "d","e","p","e","n","d","e","n","c","i","e","s">>
M_major ==
    <<"f","e","a","t",":"," ","i","m","p","l","e","m","e","n","t"," ",
      "m","a","j","o","r"," ","f","u","n","c","t","i","o","n","a","l","i","t",
      "y"," ","u","p","d","a","t","e","s">>
D_add ==
    <<":"," ","a","d","d"," ","n","e","w"," ","f","e","a","t","u","r","e","s",
      " ","a","n","d"," ","f","u","n","c","t","i","o","n","a","l","i","t","y">>
D_remove ==
    <<":"," ","r","e","m","o","v","e"," ","d","e","p","r","e","c","a","t","e",
      "d"," ","c","o","d","e">>
D_update ==
    <<":"," ","u","p","d","a","t","e"," ","a","n","d"," ","i","m","p","r","o",
      "v","e"," ","c","o","d","e","b","a","s","e">>

\* longest line the validation accepts
MaxMessageLen == 72
\* added-line count above which a diff of main.py is a "major" update
MajorAdded == 50

(***************************************************************************)
(* Output validation of generate_with_ollama.                              *)
(***************************************************************************)
\* clean_line, had the quote characters been left in place
clean_line_noquotes(line) == StripChars(line, Whitespace)

\* clean_line: line.strip(), then .strip() of the three quote characters
clean_line(line) == StripChars(StripChars(line, Whitespace), QuoteChars)

\* LineAccepted, had the type before the colon not been looked up
LineAccepted_anytype(cl) ==
    /\ Contains(cl, <<":">>)
    /\ Len(cl) <= MaxMessageLen

\* the test a cleaned line has to pass to be returned
LineAccepted(cl) ==
    /\ Contains(cl, <<":">>)
    /\ Lower(SplitFirst(cl, ":")) \in valid_types
    /\ Len(cl) <= MaxMessageLen

\* ValidateLines, had it returned the description of the line that passes,
\* clean_line.split(':', 1)[1].strip(), in place of the line
RECURSIVE ValidateLines_description(_)
ValidateLines_description(lines) ==
    IF lines = <<>> THEN None
    ELSE LET cl == clean_line(Head(lines))
         IN  IF LineAccepted(cl)
             THEN StripChars(SubSeq(cl, FirstIndex(cl, ":") + 1, Len(cl)),
                             Whitespace)
             ELSE ValidateLines_description(Tail(lines))

\* for line in lines: return the first cleaned line that passes
RECURSIVE ValidateLines(_)
ValidateLines(lines) ==
    IF lines = <<>> THEN None
    ELSE LET cl == clean_line(Head(lines))
         IN  IF LineAccepted(cl) THEN cl ELSE ValidateLines(Tail(lines))

\* the value returned for the response field, text, of a 200 answer
ValidateOutput(text) ==
    LET generated_text == StripChars(text, Whitespace)
    IN  IF generated_text # <<>>
        THEN ValidateLines(Split(generated_text, "\n"))
        ELSE None

(***************************************************************************)
(* The heuristic classifier, generate_fallback_message.                    *)
(***************************************************************************)
IsAdded(line) == StartsWith(line, K_plus) /\ ~StartsWith(line, K_plus3)
IsRemoved(line) == StartsWith(line, K_minus) /\ ~StartsWith(line, K_minus3)

added_lines(diff_lines) ==
    Cardinality({i \in 1..Len(diff_lines) : IsAdded(diff_lines[i])})
removed_lines(diff_lines) ==
    Cardinality({i \in 1..Len(diff_lines) : IsRemoved(diff_lines[i])})

\* the if/elif chain of the scan: what one line adds to change_types
LineSignal(line, git_diff) ==
    IF (Contains(line, K_def) \/ Contains(line, K_class))
       /\ StartsWith(line, K_plus) THEN {T_feat}
    ELSE IF Contains(line, T_fix) \/ Contains(line, K_bug) THEN {T_fix}
    ELSE IF Contains(line, K_import) /\ StartsWith(line, K_plus) THEN {T_feat}
    ELSE IF Contains(line, T_test) THEN {T_test}
    ELSE IF Contains(git_diff, K_md) \/ Contains(Lower(git_diff), K_readme)
         THEN {T_docs}
    ELSE IF Contains(Lower(git_diff), K_requirements)
            \/ Contains(Lower(git_diff), K_package) THEN {T_chore}
    ELSE {}

change_types(diff_lines, git_diff) ==
    UNION {LineSignal(diff_lines[i], git_diff) : i \in 1..Len(diff_lines)}

\* the priority chain that resolves change_types to one type
commit_type(types) ==
    IF T_feat \in types THEN T_feat
    ELSE IF T_fix \in types THEN T_fix
    ELSE IF T_test \in types THEN T_test
    ELSE IF T_docs \in types THEN T_docs
    ELSE IF T_chore \in types THEN T_chore
    ELSE T_chore

\* the body of the try block without the override for requirements
FallbackBody_nodeps(git_diff) ==
    LET diff_lines == Split(Lower(git_diff), "\n")
        added == added_lines(diff_lines)
        removed == removed_lines(diff_lines)
        ctype == commit_type(change_types(diff_lines, git_diff))
    IN  IF Contains(Lower(git_diff), K_openai) THEN M_ai
        ELSE IF Contains(git_diff, K_mainpy) /\ added > MajorAdded THEN M_major
        ELSE IF added > removed * 2 THEN ctype \o D_add
        ELSE IF removed > added * 2 THEN ctype \o D_remove
        ELSE ctype \o D_update

\* the body of the try block with >= in place of > in the count template
FallbackBody_atleast(git_diff) ==
    LET diff_lines == Split(Lower(git_diff), "\n")
        added == added_lines(diff_lines)
        removed == removed_lines(diff_lines)
        ctype == commit_type(change_types(diff_lines, git_diff))
    IN  IF Contains(Lower(git_diff), K_openai) THEN M_ai
        ELSE IF Contains(Lower(git_diff), K_requirements) THEN M_deps
        ELSE IF Contains(git_diff, K_mainpy) /\ added > MajorAdded THEN M_major
        ELSE IF added >= removed * 2 THEN ctype \o D_add
        ELSE IF removed >= added * 2 THEN ctype \o D_remove
        ELSE ctype \o D_update

\* the body of the try block, for a string
FallbackBody(git_diff) ==
    LET diff_lines == Split(Lower(git_diff), "\n")
        added == added_lines(diff_lines)
        removed == removed_lines(diff_lines)
        ctype == commit_type(change_types(diff_lines, git_diff))
    IN  IF Contains(Lower(git_diff), K_openai) THEN M_ai
        ELSE IF Contains(Lower(git_diff), K_requirements) THEN M_deps
        ELSE IF Contains(git_diff, K_mainpy) /\ added > MajorAdded THEN M_major
        ELSE IF added > removed * 2 THEN ctype \o D_add
        ELSE IF removed > added * 2 THEN ctype \o D_remove
        ELSE ctype \o D_update

\* the except clause of generate_fallback_message, had it returned None
FallbackOnException_none == None

\* what the except clause of generate_fallback_message returns
FallbackOnException == M_update_codebase

\* generate_fallback_message(git_diff): git_diff.lower() raises on a value
\* that is not a string, and the except clause takes over
generate_fallback_message(git_diff) ==
    IF IsStr(git_diff) THEN FallbackBody(git_diff) ELSE FallbackOnException

(***************************************************************************)
(* The diff extractor, get_git_diff.                                       *)
(***************************************************************************)
\* exit status of a git command that failed (not a repository, bad usage)
GitFailure == 128

\* result.returncode == 0 and result.stdout.strip()
Yields(run) == run.rc = 0 /\ StripChars(run.out, Whitespace) # <<>>

\* One entry of the log of git commands: the function that ran it, the
\* command, the argument the program chose (the message or the branch), its
\* exit status and, for rev-parse, what it printed (the diff a git diff
\* printed is the value get_git_diff returns)
GitRun(by, cmd, a, rc, out) ==
    [by |-> by, cmd |-> cmd, arg |-> a, rc |-> rc, out |-> out]

\* get_git_diff in a repository repo, which tells what each git command
\* answers: the value returned and the git commands run, in order
get_git_diff(repo) ==
    LET Run(cmd, run) == GitRun("get_git_diff", cmd, <<>>, run.rc, <<>>)
        quiet == GitRun("get_git_diff", "diff --staged --quiet", <<>>,
                        repo.quiet_rc, <<>>)
        work == Run("diff", repo.work)
        head == Run("diff HEAD~1", repo.head)
        staged == Run("diff --staged", repo.staged)
    IN  IF repo.quiet_rc = 0
        THEN IF Yields(repo.work)
             THEN [value |-> repo.work.out, log |-> <<quiet, work>>]
             ELSE IF Yields(repo.head)
                  THEN [value |-> repo.head.out, log |-> <<quiet, work, head>>]
                  ELSE [value |-> None, log |-> <<quiet, work, head>>]
        ELSE IF Yields(repo.staged)
             THEN [value |-> repo.staged.out, log |-> <<quiet, staged>>]
             ELSE [value |-> None, log |-> <<quiet, staged>>]

(***************************************************************************)
(* Inputs.                                                                 *)
(***************************************************************************)
\* lines a model may answer
L_valid == <<"f","e","a","t",":"," ","a","d","d"," ","p","a","r","s","e","r">>
L_upper == <<"F","I","X",":"," ","h","a","n","d","l","e"," ","n","i","l">>
L_quoted == <<"\"","d","o","c","s",":"," ","r","e","a","d","m","e","\"">>
L_spaced ==
    <<" "," ","t","e","s","t",":"," ","c","o","v","e","r"," ","e","d","g","e",
      " ">>
L_prose ==
    <<"t","h","i","s"," ","c","h","a","n","g","e"," ","f","i","x","e","s"," ",
      "b","u","g"," ","#","4">>
L_badtype == <<"w","i","p",":"," ","l","a","t","e","r">>
L_nodesc == <<"f","e","a","t",":">>
L_quotespace ==
    <<"\""," ","c","h","o","r","e",":"," ","t","i","d","y","\"">>
L_preamble == <<"H","e","r","e",":"," ","f","e","a","t",":"," ","x">>
L_grave == <<Backtick,"s","t","y","l","e",":"," ","f","m","t",Backtick>>
\* a well-formed line of exactly MaxMessageLen characters, and one longer
L_len72 == <<"f","e","a","t",":"," ">> \o Rep("x", MaxMessageLen - 6)
L_len73 == <<"f","e","a","t",":"," ">> \o Rep("x", MaxMessageLen - 5)

\* a well-formed line that ends in a blank inside its quotes
L_trailing == <<"\"","f","i","x",":"," ","t","y","p","o"," ","\"">>

OutLineSet ==
    {L_valid, L_upper, L_quoted, L_spaced, L_prose, L_badtype, L_nodesc,
     L_quotespace, L_preamble, L_grave, L_len72, L_len73, L_trailing, <<>>}

\* the sequences of at most n elements of S
SeqsUpTo(S, n) == UNION {[1..k -> S] : k \in 0..n}

\* the raw model outputs of at most MaxLines lines
RawOutputs == {Join(ls, "\n") : ls \in SeqsUpTo(OutLineSet, MaxLines)}

\* the outputs the commit command is run against
SampleOutputs ==
    {Join(<<l>>, "\n") : l \in OutLineSet}
        \cup {Join(<<L_prose, L_upper>>, "\n"), Join(<<L_badtype, L_len73>>, "\n")}

\* lines of a diff
DL_def ==
    <<"+","d","e","f"," ","h","a","n","d","l","e","_","r","e","q","u","e","s",
      "t","(",".",".",".",")">>
DL_plain == <<"+","x"," ","="," ","1">>
DL_removed == <<"-","o","l","d"," ","="," ","1">>
DL_importfix == <<"+","i","m","p","o","r","t"," ","b","u","g","f","i","x">>
DL_import == <<"+","i","m","p","o","r","t"," ","o","s">>
DL_test == <<" ","r","u","n"," ","t","e","s","t","s">>
DL_readme == <<"+","+","+"," ","b","/","R","E","A","D","M","E",".","m","d">>
DL_reqs ==
    <<"-","-","-"," ","a","/","r","e","q","u","i","r","e","m","e","n","t","s",
      ".","t","x","t">>
DL_package == <<" ","p","a","c","k","a","g","e",".","j","s","o","n">>
DL_openai == <<"+","O","p","e","n","A","I"," ","c","l","i","e","n","t">>
DL_mainpy == <<"+","+","+"," ","b","/","m","a","i","n",".","p","y">>
DL_class == <<"-","c","l","a","s","s"," ","O","l","d",":">>

DiffLineSet ==
    {DL_def, DL_plain, DL_removed, DL_importfix, DL_import, DL_test, DL_readme,
     DL_reqs, DL_package, DL_openai, DL_mainpy, DL_class, <<>>}

\* a diff of main.py with n added lines
BigMainDiff(n) == Join(<<DL_mainpy>> \o [i \in 1..n |-> DL_plain], "\n")

\* the values the heuristic classifier is applied to
FallbackInputs ==
    {Join(ls, "\n") : ls \in SeqsUpTo(DiffLineSet, MaxDiffLines)}
        \cup {BigMainDiff(MajorAdded), BigMainDiff(MajorAdded + 1)}
        \cup {None, IntVal}

\* the diffs git prints in the runs of the commit command
MainDiffs ==
    {Join(<<DL_def, <<>>>>, "\n"),
     Join(<<DL_reqs, DL_plain, <<>>>>, "\n"),
     Join(<<DL_removed, <<>>>>, "\n")}

\* what one git diff command may answer: a failure, nothing, a blank
\* line, or a diff
DiffRuns ==
    {[rc |-> GitFailure, out |-> <<>>], [rc |-> 0, out |-> <<>>],
     [rc |-> 0, out |-> <<"\n">>]}
        \cup {[rc |-> 0, out |-> d] : d \in MainDiffs}

\* the repositories (and non-repositories) get_git_diff may be run in;
\* git diff --staged --quiet exits 0 without staged changes, 1 with them
Repos ==
    [quiet_rc : {0, 1, GitFailure}, staged : DiffRuns, work : DiffRuns,
     head : DiffRuns]


(***************************************************************************)
(* The local inference client and the orchestrator.                        *)
(***************************************************************************)
\* how a call of generate_with_ollama ends: with a value, or by raising
OllamaReturn(v) == [raised |-> FALSE, value |-> v]

\* the except clause of generate_with_ollama, had it raised again
OllamaOnException_reraise == [raised |-> TRUE, value |-> None]

\* the except clause of generate_with_ollama: print, return None
OllamaOnException == [raised |-> FALSE, value |-> None]

\* check_ollama_running, had it answered True whatever the server said
check_ollama_running_always(answer) == TRUE

\* check_ollama_running, for the answer to GET /api/tags: a status code or
\* an exception of the request, which the bare except turns into False
check_ollama_running(answer) ==
    IF answer = "exception" THEN FALSE ELSE answer = "200"

\* get_available_models, for the answer to GET /api/tags: the names of a
\* 200 answer with a well-formed body, [] for anything else
get_available_models(answer) ==
    IF answer.kind = "models" THEN answer.models ELSE <<>>

\* any(model.startswith(m.split(':')[0]) for m in available_models)
AnyModelMatches(preferred, available) ==
    \E i \in 1..Len(available) :
        StartsWith(preferred, SplitFirst(available[i], ":"))

\* model selection of generate_with_ollama: the model to ask, or no model
\* (return None), or an exception (startswith on a value that is no string)
SelectModel(preferred, available) ==
    IF available # <<>> /\ ~IsStr(preferred)
    THEN [kind |-> "exception", model |-> None]
    ELSE IF AnyModelMatches(preferred, available)
    THEN [kind |-> "model", model |-> preferred]
    ELSE IF available # <<>>
    THEN [kind |-> "model", model |-> available[1]]
    ELSE [kind |-> "no_models", model |-> None]

\* generate_with_ollama from the answer to POST /api/generate on
GenerationResult(answer) ==
    CASE answer.kind = "exception" -> OllamaOnException
      [] answer.kind = "non200" -> OllamaReturn(None)
      [] answer.kind = "badjson" -> OllamaOnException
      [] answer.kind = "missing" -> OllamaReturn(ValidateOutput(<<>>))
      [] answer.kind = "null" -> OllamaOnException
      [] answer.kind = "text" -> OllamaReturn(ValidateOutput(answer.text))

\* generate_commit_message, had it returned whatever generate_with_ollama did
generate_commit_message_unchecked(outcome, diff) ==
    [value |-> outcome.value, fallback |-> FALSE]

\* generate_commit_message, given how generate_with_ollama ended: the
\* message returned and whether the heuristic classifier was called
generate_commit_message(outcome, diff) ==
    IF ~outcome.raised /\ Truthy(outcome.value)
    THEN [value |-> outcome.value, fallback |-> FALSE]
    ELSE [value |-> generate_fallback_message(diff), fallback |-> TRUE]

(***************************************************************************)
(* Interactive confirmation and the executor.                              *)
(***************************************************************************)
C_y == <<"y">>
C_n == <<"n">>
C_N == <<" ","N"," ">>
C_no == <<"n","o">>
C_edit == <<"e","d","i","t">>
C_Edit == <<" ","E","d","i","t">>

\* confirm = input(...).strip().lower()
ReadConfirm(typed) == Lower(StripChars(typed, Whitespace))

\* the branches on confirm, had the answer n not been looked at
Decision_noreject(confirm) ==
    IF confirm = C_edit THEN "edit" ELSE "accept"

\* the if/elif/else on confirm
Decision(confirm) ==
    IF confirm = C_n THEN "reject"
    ELSE IF confirm = C_edit THEN "edit"
    ELSE "accept"

\* the edit prompt, had an empty replacement been kept
EditedMessage_keepempty(typed, generated) == StripChars(typed, Whitespace)

\* message = input(...).strip(); if not message: message = generated_message
EditedMessage(typed, generated) ==
    LET m == StripChars(typed, Whitespace)
    IN  IF m = <<>> THEN generated ELSE m

\* the push, had it gone to the branch argument
PushTarget_argument(rev_parsed, branch) == branch

\* the branch commit_and_push pushes to
PushTarget(rev_parsed, branch) == rev_parsed

(***************************************************************************)
(* Inputs of the commit command.                                           *)
(***************************************************************************)
Mo_llama32_1b == <<"l","l","a","m","a","3",".","2",":","1","b">>
Mo_llama32_3b == <<"l","l","a","m","a","3",".","2",":","3","b">>
Mo_llama3_8b == <<"l","l","a","m","a","3",":","8","b">>
Mo_mistral_7b == <<"m","i","s","t","r","a","l",":","7","b">>
Mo_phi == <<"p","h","i">>

\* config.get('preferred_model', 'llama3.2:1b')
DefaultModel == Mo_llama32_1b
PreferredModels == {DefaultModel, Mo_phi, IntVal}

ModelLists ==
    {<<>>, <<Mo_llama32_1b>>, <<Mo_mistral_7b, Mo_llama32_3b>>, <<Mo_llama3_8b>>}

TagsAnswers == {"200", "500", "exception"}

DiscoveryAnswers ==
    {[kind |-> k, models |-> <<>>] : k \in {"exception", "non200", "badjson"}}
        \cup {[kind |-> "models", models |-> ms] : ms \in ModelLists}

GenerateAnswers ==
    {[kind |-> k, text |-> <<>>] :
        k \in {"exception", "non200", "badjson", "missing", "null"}}
        \cup {[kind |-> "text", text |-> t] : t \in SampleOutputs}

A_msg == <<"f","i","x",":"," ","t","y","p","o">>
E_wip == <<"w","i","p">>
E_better == <<" ","f","e","a","t",":"," ","b","e","t","t","e","r"," ">>
E_blank == <<" "," ">>
B_main == <<"m","a","i","n">>
B_dev == <<"d","e","v">>
B_dev_out == <<"d","e","v","\n">>
B_main_out == <<"m","a","i","n","\n">>

\* the command lines: commit [message] [--auto] [--branch B]
CommandLines ==
    [command : {"commit"}, auto : BOOLEAN, message : {None, <<>>, A_msg},
     branch : {B_main, B_dev}]

\* the command lines: init repo_name, and issue repo_name
N_repo == <<"d","e","m","o">>
N_issues == <<"o","c","t","o","/","d","e","m","o">>
InitLines == [command : {"init"}, repo_name : {N_repo}, private : BOOLEAN]
IssueLines == [command : {"issue"}, repo_name : {N_issues}]

\* repo.clone_url of the repository init works on
U_clone ==
    <<"h","t","t","p","s",":","/","/","g","i","t","h","u","b",".","c","o","m",
      "/","o","c","t","o","/","d","e","m","o",".","g","i","t">>

\* what the git commands of init_local_repo may answer
LocalRepos ==
    [status_rc : {0, GitFailure}, remote_rc : {0, GitFailure},
     init_rc : {0, GitFailure}, add_rc : {0, GitFailure}]

\* how the GitHub API answers get_or_create_repo: the repository exists, or
\* it is created, or the creation raises GithubException
RepoAnswers == {"found", "created", "refused"}

ConfirmInputs == {C_y, C_N, C_no, C_Edit, <<>>}
EditInputs == {<<>>, E_blank, E_wip, E_better}
RevParseOutputs == {B_main_out, B_dev_out}

(***************************************************************************)
(* State.                                                                  *)
(***************************************************************************)
VARIABLES
    pc,                 \* the position of the program
    arg,                \* the argument of the function a specification applies
    ret,                \* what that function returned
    args,               \* the parsed command line
    preferred_model,    \* generate_with_ollama's first value of model,
                        \* config.get('preferred_model', 'llama3.2:1b')
    message,            \* main's message
    git_diff,           \* main's git_diff
    result,             \* how generate_with_ollama ended
    failure,            \* the failure the inference attempt ran into
    available_models,   \* generate_with_ollama's available_models
    model,              \* generate_with_ollama's model
    http,               \* the requests sent to the inference server
    fallback_calls,     \* the calls of generate_fallback_message
    generated_message,  \* main's generated_message
    presented,          \* the message shown at the confirmation prompt
    confirm,            \* main's confirm
    replacement,        \* what the operator typed at the edit prompt
    current_branch,     \* commit_and_push's current_branch
    gitlog,             \* the git commands run, in order
    exit_code,          \* the exit status, once pc = "exit"
    authenticated,      \* what cli.authenticate() returned
    github_log,         \* the calls of the GitHub API for repositories
    config,             \* self.config, the configuration record in memory
    stored              \* the contents of the configuration file

cmdvars ==
    <<args, preferred_model, message, git_diff, result, failure,
      available_models, model, http, fallback_calls, generated_message,
      presented, confirm, replacement, current_branch, gitlog, exit_code,
      authenticated, github_log, config, stored>>
vars == <<pc, arg, ret, args, preferred_model, message, git_diff, result,
          failure, available_models, model, http, fallback_calls,
          generated_message, presented, confirm, replacement, current_branch,
          gitlog, exit_code, authenticated, github_log, config, stored>>

\* the locals of main and of the functions it calls, before they are assigned
Unassigned ==
    /\ preferred_model = None
    /\ message = None
    /\ git_diff = None
    /\ result = OllamaReturn(None)
    /\ failure = "none"
    /\ available_models = <<>>
    /\ model = None
    /\ http = <<>>
    /\ fallback_calls = 0
    /\ generated_message = None
    /\ presented = None
    /\ confirm = None
    /\ replacement = None
    /\ current_branch = None
    /\ gitlog = <<>>
    /\ exit_code = 0
    /\ authenticated = "unasked"
    /\ github_log = <<>>

\* the keys of the configuration record, and the value of a key the record
\* does not have
ConfigKeys ==
    {"descope_project_id", "descope_management_key", "descope_session_token",
     "user_email", "github_token", "github_username"}
Absent == <<"<absent>">>

\* no configuration file, and self.config = {}
NoConfig == [k \in ConfigKeys |-> Absent]

\* the configuration of the runs that do not go into cli.authenticate()
ConfigNotRead == config = NoConfig /\ stored = NoConfig

(***************************************************************************)
(* The functions on their own: each specification draws an argument and    *)
(* applies one function to it.                                             *)
(***************************************************************************)
InitFn(inputs) ==
    /\ pc = "call"
    /\ arg \in inputs
    /\ ret = None
    /\ args = [command |-> "commit", auto |-> FALSE, message |-> None,
               branch |-> B_main]
    /\ Unassigned
    /\ ConfigNotRead

InitValidate == InitFn(RawOutputs)

Validate ==
    /\ pc = "call"
    /\ ret' = ValidateOutput(arg)
    /\ pc' = "return"
    /\ UNCHANGED <<arg, cmdvars>>

SpecValidate == InitValidate /\ [][Validate]_vars

InitFallback == InitFn(FallbackInputs)

Fallback ==
    /\ pc = "call"
    /\ ret' = generate_fallback_message(arg)
    /\ pc' = "return"
    /\ UNCHANGED <<arg, cmdvars>>

SpecFallback == InitFallback /\ [][Fallback]_vars

InitDiff == InitFn(Repos)

GetDiff ==
    /\ pc = "call"
    /\ ret' = get_git_diff(arg)
    /\ pc' = "return"
    /\ UNCHANGED <<arg, cmdvars>>

SpecDiff == InitDiff /\ [][GetDiff]_vars

(***************************************************************************)
(* The commit, init and issue commands: main, from the dispatch on         *)
(* args.command to the exit of the process.                                *)
(***************************************************************************)
Init ==
    /\ pc = "main"
    /\ arg = None
    /\ ret = None
    /\ args \in CommandLines \cup InitLines \cup IssueLines
    /\ Unassigned
    /\ ConfigNotRead

\* sys.exit(code), or main returning (code 0)
Exit(code) == pc' = "exit" /\ exit_code' = code

\* the gate of init, commit and issue, had it let every run through
AuthenticationRequired_never(ok) == FALSE

\* if not cli.authenticate(): print("Authentication required ..."),
\* sys.exit(1)
AuthenticationRequired(ok) == ~ok

\* the gate of init, commit and issue on cli.authenticate(), whose flow is
\* followed step by step in the auth command below; in commit,
\* message = args.message comes next
Authenticate ==
    /\ pc = "main"
    /\ args.command \in {"init", "commit", "issue"}
    /\ \E ok \in BOOLEAN :
        /\ authenticated' = (IF ok THEN "True" ELSE "False")
        /\ IF AuthenticationRequired(ok)
           THEN /\ Exit(1)
                /\ UNCHANGED message
           ELSE /\ pc' = "authed"
                /\ message' = IF args.command = "commit"
                              THEN args.message ELSE message
                /\ UNCHANGED exit_code
    /\ UNCHANGED <<github_log, config, stored, arg, ret, args, preferred_model, git_diff, result, failure,
                   available_models, model, http, fallback_calls,
                   generated_message, presented, confirm, replacement,
                   current_branch, gitlog>>

\* elif not message: sys.exit(1)
ManualMessage ==
    /\ pc = "authed"
    /\ args.command = "commit"
    /\ ~args.auto
    /\ IF ~Truthy(message)
       THEN Exit(1)
       ELSE pc' = "commit" /\ UNCHANGED exit_code
    /\ UNCHANGED <<authenticated, github_log, config, stored,
                   arg, ret, args, preferred_model, message, git_diff, result,
                   failure, available_models, model, http, fallback_calls,
                   generated_message, presented, confirm, replacement,
                   current_branch, gitlog>>

\* git_diff = cli.get_git_diff(); if not git_diff: sys.exit(0)
GetGitDiff ==
    /\ pc = "authed"
    /\ args.command = "commit"
    /\ args.auto
    /\ \E repo \in Repos :
        LET r == get_git_diff(repo)
        IN  /\ git_diff' = r.value
            /\ gitlog' = gitlog \o r.log
            /\ IF ~Truthy(r.value)
               THEN Exit(0)
               ELSE pc' = "generate" /\ UNCHANGED exit_code
    /\ UNCHANGED <<authenticated, github_log, config, stored,
                   arg, ret, args, preferred_model, message, result, failure,
                   available_models, model, http, fallback_calls,
                   generated_message, presented, confirm, replacement,
                   current_branch>>

\* one request to the inference server, with the function that sent it and
\* the kind of answer it got; the generation request carries the model of
\* the state it is sent from
Request(by, req, answer) == [by |-> by, req |-> req, answer |-> answer]

\* generate_commit_message calls generate_with_ollama, which starts with
\* if not self.check_ollama_running(): return None
CheckOllamaRunning ==
    /\ pc = "generate"
    /\ \E answer \in TagsAnswers :
        /\ http' = Append(http, Request("check_ollama_running",
                                        "GET /api/tags", answer))
        /\ IF check_ollama_running(answer)
           THEN /\ pc' = "discover"
                /\ UNCHANGED <<result, failure>>
           ELSE /\ pc' = "resolve"
                /\ result' = OllamaReturn(None)
                /\ failure' = IF answer = "exception"
                              THEN "unreachable" ELSE "liveness_status"
    /\ UNCHANGED <<authenticated, github_log, config, stored,
                   arg, ret, args, preferred_model, message, git_diff,
                   available_models, model, fallback_calls, generated_message,
                   presented, confirm, replacement, current_branch, gitlog,
                   exit_code>>

\* generate_with_ollama returns: its locals are gone
OllamaLocalsGone ==
    /\ preferred_model' = None
    /\ available_models' = <<>>
    /\ model' = None

\* model = self.config.get('preferred_model', 'llama3.2:1b'),
\* available_models = self.get_available_models() and the choice of the model
DiscoverModels ==
    /\ pc = "discover"
    /\ \E preferred \in PreferredModels, answer \in DiscoveryAnswers :
        LET available == get_available_models(answer)
            chosen == SelectModel(preferred, available)
        IN  /\ http' = Append(http, Request("get_available_models",
                                            "GET /api/tags", answer.kind))
            /\ CASE chosen.kind = "model" ->
                      /\ pc' = "post"
                      /\ preferred_model' = preferred
                      /\ available_models' = available
                      /\ model' = chosen.model
                      /\ UNCHANGED <<result, failure>>
                 [] chosen.kind = "no_models" ->
                      /\ pc' = "resolve"
                      /\ result' = OllamaReturn(None)
                      /\ failure' = IF answer.kind = "models"
                                    THEN "no_models" ELSE "discovery"
                      /\ OllamaLocalsGone
                 [] chosen.kind = "exception" ->
                      /\ pc' = "resolve"
                      /\ result' = OllamaOnException
                      /\ failure' = "selection"
                      /\ OllamaLocalsGone
    /\ UNCHANGED <<authenticated, github_log, config, stored,
                   arg, ret, args, message, git_diff, fallback_calls,
                   generated_message, presented, confirm, replacement,
                   current_branch, gitlog, exit_code>>

\* the failure, if any, that an answer to the generation request stands for
GenerationFailure(answer) ==
    IF answer.kind = "text"
    THEN IF ValidateOutput(answer.text) = None THEN "no_valid_line" ELSE "none"
    ELSE answer.kind

\* response = requests.post(.../api/generate ...) and the validation
PostGenerate ==
    /\ pc = "post"
    /\ \E answer \in GenerateAnswers :
        /\ http' = Append(http, Request("generate_with_ollama",
                                        "POST /api/generate", answer.kind))
        /\ result' = GenerationResult(answer)
        /\ failure' = GenerationFailure(answer)
        /\ pc' = "resolve"
    /\ OllamaLocalsGone
    /\ UNCHANGED <<authenticated, github_log, config, stored,
                   arg, ret, args, message, git_diff, fallback_calls,
                   generated_message, presented, confirm, replacement,
                   current_branch, gitlog, exit_code>>

\* generate_commit_message after generate_with_ollama ended: return its
\* result, or call generate_fallback_message
Resolve ==
    /\ pc = "resolve"
    /\ LET r == generate_commit_message(result, git_diff)
       IN  /\ generated_message' = r.value
           /\ fallback_calls' = fallback_calls + (IF r.fallback THEN 1 ELSE 0)
    /\ pc' = "generated"
    /\ UNCHANGED <<authenticated, github_log, config, stored,
                   arg, ret, args, preferred_model, message, git_diff, result,
                   failure, available_models, model, http, presented, confirm,
                   replacement, current_branch, gitlog, exit_code>>

\* if not generated_message: sys.exit(1); print the generated message
Present ==
    /\ pc = "generated"
    /\ IF ~Truthy(generated_message)
       THEN Exit(1) /\ UNCHANGED presented
       ELSE /\ presented' = generated_message
            /\ pc' = "confirm"
            /\ UNCHANGED exit_code
    /\ UNCHANGED <<authenticated, github_log, config, stored,
                   arg, ret, args, preferred_model, message, git_diff, result,
                   failure, available_models, model, http, fallback_calls,
                   generated_message, confirm, replacement, current_branch,
                   gitlog>>

\* confirm = input("Use this commit message? (y/n/edit): ") and its branches
Confirm ==
    /\ pc = "confirm"
    /\ \E typed \in ConfirmInputs :
        LET c == ReadConfirm(typed)
        IN  /\ confirm' = c
            /\ CASE Decision(c) = "reject" ->
                      Exit(1) /\ UNCHANGED message
                 [] Decision(c) = "edit" ->
                      pc' = "edit" /\ UNCHANGED <<message, exit_code>>
                 [] Decision(c) = "accept" ->
                      /\ message' = generated_message
                      /\ pc' = "commit"
                      /\ UNCHANGED exit_code
    /\ UNCHANGED <<authenticated, github_log, config, stored,
                   arg, ret, args, preferred_model, git_diff, result, failure,
                   available_models, model, http, fallback_calls,
                   generated_message, presented, replacement, current_branch,
                   gitlog>>

\* message = input("Edit message [...]: ").strip(), empty keeps the generated
EditMessage ==
    /\ pc = "edit"
    /\ \E typed \in EditInputs :
        /\ replacement' = typed
        /\ message' = EditedMessage(typed, generated_message)
    /\ pc' = "commit"
    /\ UNCHANGED <<authenticated, github_log, config, stored,
                   arg, ret, args, preferred_model, git_diff, result, failure,
                   available_models, model, http, fallback_calls,
                   generated_message, presented, confirm, current_branch,
                   gitlog, exit_code>>

(***************************************************************************)
(* commit_and_push, one git command at a time.  A command run with         *)
(* check=True that fails raises CalledProcessError: commit_and_push        *)
(* returns False and main exits with 1.  When commit_and_push returns True *)
(* main ends and the process exits with 0.                                 *)
(***************************************************************************)
ByExecutor(cmd, a, rc, out) == GitRun("commit_and_push", cmd, a, rc, out)

\* subprocess.run(['git', 'add', '.'], check=True)
GitAdd ==
    /\ pc = "commit"
    /\ \E rc \in {0, GitFailure} :
        /\ gitlog' = Append(gitlog, ByExecutor("add", <<>>, rc, <<>>))
        /\ IF rc = 0
           THEN pc' = "staged_check" /\ UNCHANGED exit_code
           ELSE Exit(1)
    /\ UNCHANGED <<authenticated, github_log, config, stored,
                   arg, ret, args, preferred_model, message, git_diff, result,
                   failure, available_models, model, http, fallback_calls,
                   generated_message, presented, confirm, replacement,
                   current_branch>>

\* git diff --staged --quiet; returncode 0: "No changes to commit", True
StagedCheck ==
    /\ pc = "staged_check"
    /\ \E rc \in {0, 1, GitFailure} :
        /\ gitlog' = Append(gitlog,
                            ByExecutor("diff --staged --quiet", <<>>, rc, <<>>))
        /\ IF rc = 0
           THEN Exit(0)
           ELSE pc' = "git_commit" /\ UNCHANGED exit_code
    /\ UNCHANGED <<authenticated, github_log, config, stored,
                   arg, ret, args, preferred_model, message, git_diff, result,
                   failure, available_models, model, http, fallback_calls,
                   generated_message, presented, confirm, replacement,
                   current_branch>>

\* subprocess.run(['git', 'commit', '-m', message], check=True)
GitCommit ==
    /\ pc = "git_commit"
    /\ \E rc \in {0, GitFailure} :
        /\ gitlog' = Append(gitlog, ByExecutor("commit", message, rc, <<>>))
        /\ IF rc = 0
           THEN pc' = "rev_parse" /\ UNCHANGED exit_code
           ELSE Exit(1)
    /\ UNCHANGED <<authenticated, github_log, config, stored,
                   arg, ret, args, preferred_model, message, git_diff, result,
                   failure, available_models, model, http, fallback_calls,
                   generated_message, presented, confirm, replacement,
                   current_branch>>

\* git rev-parse --abbrev-ref HEAD, check=True; current_branch = stdout.strip()
RevParse ==
    /\ pc = "rev_parse"
    /\ \/ \E out \in RevParseOutputs :
            /\ gitlog' = Append(gitlog, ByExecutor("rev-parse", <<>>, 0, out))
            /\ current_branch' = StripChars(out, Whitespace)
            /\ pc' = "git_push"
            /\ UNCHANGED exit_code
       \/ /\ gitlog' = Append(gitlog,
                              ByExecutor("rev-parse", <<>>, GitFailure, <<>>))
          /\ Exit(1)
          /\ UNCHANGED current_branch
    /\ UNCHANGED <<authenticated, github_log, config, stored,
                   arg, ret, args, preferred_model, message, git_diff, result,
                   failure, available_models, model, http, fallback_calls,
                   generated_message, presented, confirm, replacement>>

\* subprocess.run(['git', 'push', 'origin', current_branch], check=True)
GitPush ==
    /\ pc = "git_push"
    /\ \E rc \in {0, GitFailure} :
        /\ gitlog' = Append(gitlog,
               ByExecutor("push", PushTarget(current_branch, args.branch),
                          rc, <<>>))
        /\ Exit(IF rc = 0 THEN 0 ELSE 1)
    /\ UNCHANGED <<authenticated, github_log, config, stored,
                   arg, ret, args, preferred_model, message, git_diff, result,
                   failure, available_models, model, http, fallback_calls,
                   generated_message, presented, confirm, replacement,
                   current_branch>>

(***************************************************************************)
(* The init and issue commands.                                            *)
(***************************************************************************)
\* one call of the GitHub API for repositories
ApiCall(by, call, name) == [by |-> by, call |-> call, name |-> name]

\* get_or_create_repo(repo_name): the repository or None, and the calls made
get_or_create_repo(repo_name, answer) ==
    LET get == ApiCall("get_or_create_repo", "get_repo", repo_name)
        create == ApiCall("get_or_create_repo", "create_repo", repo_name)
    IN  IF answer = "found"
        THEN [value |-> U_clone, log |-> <<get>>]
        ELSE IF answer = "created"
        THEN [value |-> U_clone, log |-> <<get, create>>]
        ELSE [value |-> None, log |-> <<get, create>>]

\* init_local_repo(repo_url) in a directory local, which tells what each git
\* command answers: True or False, and the git commands run, in order
init_local_repo(repo_url, local) ==
    LET Run(cmd, a, rc) == GitRun("init_local_repo", cmd, a, rc, <<>>)
        status == Run("status", <<>>, local.status_rc)
        geturl == Run("remote get-url", <<"origin">>, local.remote_rc)
        init == Run("init", <<>>, local.init_rc)
        add == Run("remote add origin", repo_url, local.add_rc)
    IN  IF local.status_rc = 0
        THEN IF local.remote_rc # 0
             THEN [value |-> local.add_rc = 0, log |-> <<status, geturl, add>>]
             ELSE [value |-> TRUE, log |-> <<status, geturl>>]
        ELSE IF local.init_rc # 0
        THEN [value |-> FALSE, log |-> <<status, init>>]
        ELSE [value |-> local.add_rc = 0, log |-> <<status, init, add>>]

\* repo = cli.get_or_create_repo(...); if not repo: sys.exit(1)
GetOrCreateRepo ==
    /\ pc = "authed"
    /\ args.command = "init"
    /\ \E answer \in RepoAnswers :
        LET r == get_or_create_repo(args.repo_name, answer)
        IN  /\ github_log' = github_log \o r.log
            /\ IF ~Truthy(r.value)
               THEN Exit(1)
               ELSE pc' = "init_local" /\ UNCHANGED exit_code
    /\ UNCHANGED <<authenticated, config, stored, arg, ret, args,
                   preferred_model, message, git_diff, result, failure,
                   available_models, model, http, fallback_calls,
                   generated_message, presented, confirm, replacement,
                   current_branch, gitlog>>

\* if not cli.init_local_repo(repo.clone_url): sys.exit(1)
InitLocalRepo ==
    /\ pc = "init_local"
    /\ \E local \in LocalRepos :
        LET r == init_local_repo(U_clone, local)
        IN  /\ gitlog' = gitlog \o r.log
            /\ Exit(IF r.value THEN 0 ELSE 1)
    /\ UNCHANGED <<authenticated, github_log, config, stored, arg, ret, args,
                   preferred_model, message, git_diff, result, failure,
                   available_models, model, http, fallback_calls,
                   generated_message, presented, confirm, replacement,
                   current_branch>>

\* cli.show_issues(args.limit, args.repo_name, labels), which catches what
\* the listing raises
ShowIssues ==
    /\ pc = "authed"
    /\ args.command = "issue"
    /\ github_log' =
          Append(github_log, ApiCall("show_issues", "get_issues", args.repo_name))
    /\ Exit(0)
    /\ UNCHANGED <<authenticated, config, stored, arg, ret, args,
                   preferred_model, message, git_diff, result, failure,
                   available_models, model, http, fallback_calls,
                   generated_message, presented, confirm, replacement,
                   current_branch, gitlog>>

Next ==
    \/ Authenticate
    \/ GetOrCreateRepo
    \/ InitLocalRepo
    \/ ShowIssues
    \/ ManualMessage
    \/ GetGitDiff
    \/ CheckOllamaRunning
    \/ DiscoverModels
    \/ PostGenerate
    \/ Resolve
    \/ Present
    \/ Confirm
    \/ EditMessage
    \/ GitAdd
    \/ StagedCheck
    \/ GitCommit
    \/ RevParse
    \/ GitPush

Spec == Init /\ [][Next]_vars

(***************************************************************************)
(* The auth and config commands, and the configuration record they change. *)
(***************************************************************************)
\* sample values of the configuration record and of what is typed or sent
P_id == <<"P","2","a","b","c">>
P_new == <<"P","2","n","e","w">>
K_mgmt == <<"K","2","k","e","y">>
K_new == <<"K","2","n","e","w">>
S_old == <<"j","w","t",".","o","l","d">>
S_new == <<"j","w","t",".","n","e","w">>
Em_old == <<"o","l","d","@","x",".","i","o">>
Em_arg == <<"d","e","v","@","x",".","i","o">>
Em_typed == <<"m","e","@","x",".","i","o">>
G_old == <<"g","h","p","_","o","l","d">>
G_typed == <<"g","h","p","_","n","e","w">>
G_session == <<"g","h","o","_","s","s","o">>
U_old == <<"o","l","d","u","s","e","r">>
U_login == <<"o","c","t","o","c","a","t">>

\* the configuration files a run may start from: none, the Descope
\* credentials, and these with a session, a GitHub token, or both
F_creds ==
    [NoConfig EXCEPT !["descope_project_id"] = P_id,
                     !["descope_management_key"] = K_mgmt]
F_session ==
    [F_creds EXCEPT !["descope_session_token"] = S_old,
                    !["user_email"] = Em_old]
F_github ==
    [F_creds EXCEPT !["github_token"] = G_old, !["github_username"] = U_old]
F_full ==
    [F_session EXCEPT !["github_token"] = G_old, !["github_username"] = U_old]
ConfigFiles == {NoConfig, F_creds, F_session, F_github, F_full}

\* the command lines: auth [--email E] [--force], and
\* config [--project-id P] [--management-key K]
AuthLines == [command : {"auth"}, email : {None, Em_arg}, force : BOOLEAN]
ConfigLines ==
    [command : {"config"}, project_id : {None, P_new},
     management_key : {None, K_new}]

\* how Github(token).get_user() ends
GithubAnswers == {"ok", "GithubException", "Exception"}

\* what setup_github_connection meets: the answer for the token of the
\* record, the token typed at the prompt, and the answer for that token
GithubSetups ==
    [existing : GithubAnswers, typed : {<<>>, G_typed}, fresh : GithubAnswers]

\* key in self.config, and self.config.get(key)
Has(c, key) == c[key] # Absent
Get(c, key) == IF Has(c, key) THEN c[key] ELSE None

\* save_config: json.dump(self.config, f) over the file
save_config(file, c) == c

\* init_descope_client: whether self.descope_client is set, given whether
\* DescopeClient(...) could be built
init_descope_client(c, built) ==
    /\ Truthy(Get(c, "descope_project_id"))
    /\ Truthy(Get(c, "descope_management_key"))
    /\ built

\* self.config['descope_session_token'] = session_token and
\* self.config['user_email'] = email of complete_authentication and of
\* complete_authentication_with_session
SessionSet(c, email, session_token) ==
    [c EXCEPT !["descope_session_token"] = session_token,
              !["user_email"] = email]

\* self.config['github_token'] = github_token,
\* self.config['github_username'] = user.login and self.save_config()
GithubSet(c, file, github_token, login) ==
    LET set == [c EXCEPT !["github_token"] = github_token,
                         !["github_username"] = login]
    IN  [config |-> set, stored |-> save_config(file, set)]

\* setup_github_connection: True, False or an exception of get_user() that
\* is no GithubException, with the record and the file it leaves
setup_github_connection(c, file, setup) ==
    LET same(v) == [value |-> v, config |-> c, stored |-> file]
        known == Has(c, "github_token") /\ Has(c, "github_username")
        github_token == StripChars(setup.typed, Whitespace)
        set == GithubSet(c, file, github_token, U_login)
    IN  IF known /\ setup.existing = "ok" THEN same("True")
        ELSE IF known /\ setup.existing = "Exception" THEN same("raise")
        ELSE IF ~Truthy(github_token) THEN same("False")
        ELSE IF setup.fresh = "ok"
        THEN [value |-> "True", config |-> set.config, stored |-> set.stored]
        ELSE IF setup.fresh = "GithubException" THEN same("False")
        ELSE same("raise")

\* set_descope_config(project_id, management_key)
set_descope_config(c, file, project_id, management_key) ==
    LET with_id == IF Truthy(project_id)
                   THEN [c EXCEPT !["descope_project_id"] = project_id]
                   ELSE c
        with_key == IF Truthy(management_key)
                    THEN [with_id EXCEPT
                              !["descope_management_key"] = management_key]
                    ELSE with_id
    IN  IF ~Truthy(project_id) /\ ~Truthy(management_key)
        THEN [value |-> FALSE, config |-> c, stored |-> file]
        ELSE [value |-> TRUE, config |-> with_key,
              stored |-> save_config(file, with_key)]

\* the variables of the other commands
othervars ==
    <<arg, ret, args, preferred_model, message, git_diff, result, failure,
      available_models, model, http, fallback_calls, generated_message,
      presented, confirm, replacement, current_branch, gitlog, github_log>>

InitAuth ==
    /\ pc = "main"
    /\ arg = None
    /\ ret = None
    /\ args \in AuthLines \cup ConfigLines
    /\ Unassigned
    /\ config \in ConfigFiles
    /\ stored = config

\* cli.authenticate(args.email, args.force) returns to main:
\* if not cli.authenticate(...): sys.exit(1)
AuthReturn(ok) ==
    /\ authenticated' = (IF ok THEN "True" ELSE "False")
    /\ Exit(IF ok THEN 0 ELSE 1)

\* the email address authenticate_descope goes on with
LoginEmail == IF Truthy(args.email) THEN args.email ELSE Em_typed

\* authenticate_descope up to the choice between the session of the record
\* and a new one
AuthenticateDescope ==
    /\ pc = "main"
    /\ args.command = "auth"
    /\ \E built \in BOOLEAN :
        IF ~init_descope_client(config, built)
        THEN AuthReturn(FALSE)
        ELSE /\ pc' = IF ~args.force /\ Has(config, "descope_session_token")
                         /\ Has(config, "user_email")
                      THEN "session" ELSE "prompt"
             /\ UNCHANGED <<authenticated, exit_code>>
    /\ UNCHANGED <<config, stored, othervars>>

\* Already authenticated: return self.setup_github_connection(), whose
\* exceptions lead on to the prompts
ExistingSession ==
    /\ pc = "session"
    /\ \E setup \in GithubSetups :
        LET r == setup_github_connection(config, stored, setup)
        IN  /\ config' = r.config
            /\ stored' = r.stored
            /\ IF r.value = "raise"
               THEN pc' = "prompt" /\ UNCHANGED <<authenticated, exit_code>>
               ELSE AuthReturn(r.value = "True")
    /\ UNCHANGED othervars

\* choice = input("Enter choice (1 or 2): ").strip()
ChooseMethod ==
    /\ pc = "prompt"
    /\ \E choice \in {"1", "2", "3"} :
        IF choice = "1"
        THEN pc' = "magic_link" /\ UNCHANGED <<authenticated, exit_code>>
        ELSE IF choice = "2"
        THEN pc' = "otp" /\ UNCHANGED <<authenticated, exit_code>>
        ELSE AuthReturn(FALSE)
    /\ UNCHANGED <<config, stored, othervars>>

\* authenticate_magic_link: the link is sent or not, and a session token is
\* pasted or not
AuthenticateMagicLink ==
    /\ pc = "magic_link"
    /\ \E sent \in BOOLEAN, session_token \in {<<>>, S_new} :
        IF sent /\ Truthy(session_token)
        THEN pc' = "complete" /\ UNCHANGED <<authenticated, exit_code>>
        ELSE AuthReturn(FALSE)
    /\ UNCHANGED <<config, stored, othervars>>

\* authenticate_otp: the code is sent or not, typed or not, verified or not,
\* and the answer carries a session_jwt or not
AuthenticateOtp ==
    /\ pc = "otp"
    /\ \E answer \in {"not_sent", "no_code", "not_verified", "no_session_jwt",
                      "session_jwt"} :
        IF answer = "session_jwt"
        THEN pc' = "complete_session" /\ UNCHANGED <<authenticated, exit_code>>
        ELSE AuthReturn(FALSE)
    /\ UNCHANGED <<config, stored, othervars>>

\* complete_authentication up to its call of setup_github_connection
CompleteAuthentication ==
    /\ pc = "complete"
    /\ config' = SessionSet(config, LoginEmail, S_new)
    /\ pc' = "github"
    /\ UNCHANGED <<stored, authenticated, exit_code, othervars>>

\* complete_authentication_with_session up to its call of
\* setup_github_with_token or setup_github_connection, with what
\* extract_github_token_from_session returned
CompleteAuthenticationWithSession ==
    /\ pc = "complete_session"
    /\ config' = SessionSet(config, LoginEmail, S_new)
    /\ \E github_token \in {None, G_session} :
        pc' = IF Truthy(github_token) THEN "with_token" ELSE "github"
    /\ UNCHANGED <<stored, authenticated, exit_code, othervars>>

\* setup_github_with_token(github_token)
SetupGithubWithToken ==
    /\ pc = "with_token"
    /\ \E answer \in GithubAnswers :
        LET set == GithubSet(config, stored, G_session, U_login)
        IN  IF answer = "ok"
            THEN /\ config' = set.config
                 /\ stored' = set.stored
                 /\ AuthReturn(TRUE)
            ELSE IF answer = "GithubException"
            THEN /\ pc' = "github"
                 /\ UNCHANGED <<config, stored, authenticated, exit_code>>
            ELSE /\ AuthReturn(FALSE)
                 /\ UNCHANGED <<config, stored>>
    /\ UNCHANGED othervars

\* setup_github_connection called to complete an authentication, whose
\* try block turns an exception into False
SetupGithubConnection ==
    /\ pc = "github"
    /\ \E setup \in GithubSetups :
        LET r == setup_github_connection(config, stored, setup)
        IN  /\ config' = r.config
            /\ stored' = r.stored
            /\ AuthReturn(r.value = "True")
    /\ UNCHANGED othervars

\* if not cli.set_descope_config(...): sys.exit(1)
SetDescopeConfig ==
    /\ pc = "main"
    /\ args.command = "config"
    /\ LET r == set_descope_config(config, stored, args.project_id,
                                   args.management_key)
       IN  /\ config' = r.config
           /\ stored' = r.stored
           /\ Exit(IF r.value THEN 0 ELSE 1)
    /\ UNCHANGED <<authenticated, othervars>>

NextAuth ==
    \/ AuthenticateDescope
    \/ ExistingSession
    \/ ChooseMethod
    \/ AuthenticateMagicLink
    \/ AuthenticateOtp
    \/ CompleteAuthentication
    \/ CompleteAuthenticationWithSession
    \/ SetupGithubWithToken
    \/ SetupGithubConnection
    \/ SetDescopeConfig

SpecAuth == InitAuth /\ [][NextAuth]_vars

(***************************************************************************)
(* Properties.                                                             *)
(***************************************************************************)
\* the commit command with --auto, and without it
CommitAuto == args.command = "commit" /\ args.auto
CommitManual == args.command = "commit" /\ ~args.auto

\* generate_commit_message has returned to main
Resolved == pc \notin {"main", "authed", "generate", "discover", "post",
                       "resolve", "call", "return"}
            /\ Truthy(git_diff)

\* the git commands commit_and_push has run, in order
IsByExecutor(e) == e.by = "commit_and_push"
ExecLog == SelectSeq(gitlog, IsByExecutor)

\* the messages git commit was called with
Committed == {gitlog[i].arg : i \in {j \in 1..Len(gitlog) : gitlog[j].cmd = "commit"}}

\* m reads "<type>: <description>" with one of the seven types, as written
WellFormed(m) ==
    \E t \in valid_types :
        StartsWith(m, t \o <<":", " ">>) /\ Len(m) > Len(t) + 2

\* m has a colon, and what precedes the first one is a type in any case
TypedLoosely(m) ==
    /\ \E i \in 1..Len(m) : m[i] = ":"
    /\ \E t \in valid_types : Lower(SplitFirst(m, ":")) = t

\* C1: generate_commit_message returns one non-empty message from one
\* source: the result of generate_with_ollama when that is a non-empty
\* message, and otherwise the result of generate_fallback_message on the same
\* diff; the classifier is called exactly when the inference attempt gave no
\* message or raised.
C1_OneSource ==
    pc = "generated" =>
        /\ Truthy(generated_message)
        /\ IF ~result.raised /\ Truthy(result.value)
           THEN generated_message = result.value /\ fallback_calls = 0
           ELSE /\ generated_message = generate_fallback_message(git_diff)
                /\ fallback_calls = 1

C1_Witness ==
    /\ pc = "generated"
    /\ failure = "no_valid_line"
    /\ fallback_calls = 1
    /\ generated_message = M_deps

\* C2 as stated: no message is shown at the confirmation prompt of
\* commit --auto, or passed to git commit by it, unless it reads
\* "<type>: <description>" with one of the seven types.
C2_AsStated ==
    /\ presented # None => WellFormed(presented)
    /\ CommitAuto => \A m \in Committed : WellFormed(m)

\* C2 as amended: the message shown at the confirmation prompt has a colon
\* and the text before its first colon is, in any letter case, one of the
\* seven types; the message committed on accept, or on edit with an empty
\* replacement, is that message.  (A replacement that is not empty is
\* committed as typed.)
C2_PresentedTypedLoosely ==
    /\ presented # None => TypedLoosely(presented)
    /\ (CommitAuto /\ (replacement = None
                      \/ StripChars(replacement, Whitespace) = <<>>))
         => \A m \in Committed : m = presented /\ TypedLoosely(m)

C2_Witness ==
    /\ CommitAuto
    /\ presented = L_upper
    /\ ~WellFormed(presented)
    /\ replacement = E_blank
    /\ Committed = {L_upper}

\* C3: generate_fallback_message returns, for every input, a non-empty
\* string "<type>: <description>", and "chore: update codebase" when its
\* body fails (the input is not a string).
C3_FallbackTotal ==
    pc = "return" =>
        /\ IsStr(ret)
        /\ ret # <<>>
        /\ WellFormed(ret)
        /\ ~IsStr(arg) => ret = M_update_codebase

C3_Witness == pc = "return" /\ arg = None /\ ret = M_update_codebase

\* C4: generate_with_ollama never raises and never ends the process: after
\* any failure of the inference attempt it has returned None, and the
\* orchestrator goes on to call the heuristic classifier.
C4_InferenceNeverFatal ==
    (failure # "none" /\ pc \notin {"discover", "post"}) =>
        /\ ~result.raised
        /\ result.value = None
        /\ pc = "exit" => Resolved
        /\ Resolved => fallback_calls = 1

C4_Witness ==
    /\ failure = "badjson"
    /\ Resolved
    /\ fallback_calls = 1
    /\ Len(http) = 3

\* the diff the selection policy of C5 names for a repository
ClaimedDiff(repo) ==
    IF repo.quiet_rc # 0 /\ Yields(repo.staged) THEN repo.staged.out
    ELSE IF Yields(repo.work) THEN repo.work.out
    ELSE IF Yields(repo.head) THEN repo.head.out
    ELSE None

\* C5 as stated: get_git_diff returns the first of the staged diff (when
\* there are staged changes), the working-tree diff and the diff against
\* HEAD~1 that has content, and None only when none has: a source that is
\* empty or fails does not keep the later ones from being tried.
C5_AsStated == pc = "return" => ret.value = ClaimedDiff(arg)

\* a git command failed: git diff --quiet exits 1 to tell of differences
GitFailed(e) ==
    IF e.cmd = "diff --staged --quiet" THEN e.rc \notin {0, 1} ELSE e.rc # 0

\* C6 as stated: once a git command of the commit command has failed, no
\* further git command is run and the process does not exit with 0.
C6_AsStated ==
    \A i \in 1..Len(gitlog) :
        (args.command = "commit" /\ GitFailed(gitlog[i])) =>
            /\ i = Len(gitlog)
            /\ pc = "exit" => exit_code # 0

ExecutorOrder == <<"add", "diff --staged --quiet", "commit", "rev-parse", "push">>

C8_Confirmation ==
    /\ confirm = C_n => pc = "exit" /\ exit_code = 1 /\ ExecLog = <<>>
    /\ (confirm # None /\ confirm \notin {C_n, C_edit}) =>
          message = generated_message
    /\ (confirm = C_edit /\ replacement # None
        /\ StripChars(replacement, Whitespace) = <<>>) =>
          message = generated_message /\ Committed \subseteq {generated_message}

C8_Witness ==
    /\ confirm = C_n
    /\ pc = "exit"
    /\ exit_code = 1
    /\ Len(gitlog) > 0

\* C9: git commit is never called with an empty message: without --auto a
\* missing or empty message argument exits with 1 before any git command,
\* with --auto the message committed is the generated message or what the
\* operator typed instead, and is not empty.
C9_NoEmptyCommit ==
    /\ \A m \in Committed : Truthy(m)
    /\ (CommitManual /\ ~Truthy(args.message) /\ pc = "exit") =>
          exit_code = 1 /\ gitlog = <<>>
    /\ CommitAuto =>
          \A m \in Committed :
              \/ m = generated_message /\ Truthy(generated_message)
              \/ /\ replacement # None
                 /\ m = StripChars(replacement, Whitespace)

C9_Witness ==
    /\ CommitAuto
    /\ args.message = A_msg
    /\ replacement = <<>>
    /\ Committed # {}
    /\ A_msg \notin Committed

\* surrounding whitespace removed, then surrounding quote characters
Stripped(line) ==
    LET NoSpace(s) ==
            SubSeq(s, CHOOSE i \in 1..(Len(s) + 1) :
                          /\ \A j \in 1..(i - 1) : s[j] \in Whitespace
                          /\ i <= Len(s) => s[i] \notin Whitespace,
                      Len(s))
        NoSpaceEnd(s) ==
            SubSeq(s, 1, CHOOSE i \in 0..Len(s) :
                             /\ \A j \in (i + 1)..Len(s) : s[j] \in Whitespace
                             /\ i >= 1 => s[i] \notin Whitespace)
        NoQuote(s) ==
            SubSeq(s, CHOOSE i \in 1..(Len(s) + 1) :
                          /\ \A j \in 1..(i - 1) : s[j] \in QuoteChars
                          /\ i <= Len(s) => s[i] \notin QuoteChars,
                      Len(s))
        NoQuoteEnd(s) ==
            SubSeq(s, 1, CHOOSE i \in 0..Len(s) :
                             /\ \A j \in (i + 1)..Len(s) : s[j] \in QuoteChars
                             /\ i >= 1 => s[i] \notin QuoteChars)
    IN  NoQuoteEnd(NoQuote(NoSpaceEnd(NoSpace(line))))

\* a stripped line qualifies: a colon, a type before the first colon in any
\* letter case, and at most 72 characters
Qualifies(cl) ==
    /\ \E i \in 1..Len(cl) : cl[i] = ":"
    /\ \E t \in valid_types : Lower(SplitFirst(cl, ":")) = t
    /\ Len(cl) <= 72

BaseName(m) == SplitFirst(m, ":")

\* the model the claim has sent: the preferred one when its base name is
\* the base name of an available model, the first available one otherwise
ClaimedModel(preferred, available) ==
    IF \E i \in 1..Len(available) : BaseName(preferred) = BaseName(available[i])
    THEN preferred
    ELSE available[1]

\* C11 as stated: the model of the generation request is the preferred
\* model if and only if its base name equals the base name of an available
\* model, and the first available model otherwise; without available models
\* no generation request is sent and the outcome is "unavailable".
C11_AsStated ==
    /\ pc = "post" => model = ClaimedModel(preferred_model, available_models)
    /\ failure = "no_models" =>
          /\ result = OllamaReturn(None)
          /\ \A i \in 1..Len(http) : http[i].req # "POST /api/generate"

(***************************************************************************)
(* C12.  The override for the dependency manifest.                         *)
(***************************************************************************)
\* the file name the claim is about
RequirementsTxt ==
    <<"r","e","q","u","i","r","e","m","e","n","t","s",".","t","x","t">>

\* the classifier was applied to a diff that mentions requirements.txt
ClassifiedManifest ==
    pc = "return" /\ IsStr(arg) /\ Contains(arg, RequirementsTxt)

\* C12 as stated: every diff that mentions requirements.txt anywhere is
\* answered with exactly "chore: update dependencies", whatever else the
\* diff contains.
C12_AsStated == ClassifiedManifest => ret = M_deps

\* C12, amended: every diff that mentions requirements.txt and does not
\* mention "openai" in any letter case is answered with exactly
\* "chore: update dependencies", whatever its line counts and other signals.
C12_ManifestUnlessOpenai ==
    (ClassifiedManifest /\ ~Contains(Lower(arg), K_openai)) => ret = M_deps

\* a diff with an added def line (a feat signal) and requirements.txt was
\* answered with the dependency message
C12_Witness ==
    /\ ClassifiedManifest
    /\ Contains(arg, DL_def)
    /\ ~Contains(Lower(arg), K_openai)
    /\ ret = M_deps

(***************************************************************************)
(* C13, C14.  The type and the description of the generic message.         *)
(***************************************************************************)
\* none of the three overrides applies to a diff
NoOverride(d) ==
    /\ ~Contains(Lower(d), K_openai)
    /\ ~Contains(Lower(d), K_requirements)
    /\ ~(Contains(d, K_mainpy)
         /\ added_lines(Split(Lower(d), "\n")) > MajorAdded)

\* the classifier was applied to a diff and no override took over
ClassifiedGeneric == pc = "return" /\ IsStr(arg) /\ NoOverride(arg)

\* the candidate set of the claim: every signal collected on its own
ClaimedTypes(d) ==
    LET ls == Split(Lower(d), "\n")
        Some(P(_)) == \E i \in 1..Len(ls) : P(ls[i])
        DefOrImport(l) ==
            IsAdded(l) /\ (Contains(l, K_def) \/ Contains(l, K_class)
                           \/ Contains(l, K_import))
        FixOrBug(l) == Contains(l, T_fix) \/ Contains(l, K_bug)
        Test(l) == Contains(l, T_test)
    IN  (IF Some(DefOrImport) THEN {T_feat} ELSE {})
        \cup (IF Some(FixOrBug) THEN {T_fix} ELSE {})
        \cup (IF Some(Test) THEN {T_test} ELSE {})
        \cup (IF Contains(d, K_md) \/ Contains(Lower(d), K_readme)
              THEN {T_docs} ELSE {})
        \cup (IF Contains(Lower(d), K_requirements)
                 \/ Contains(Lower(d), K_package)
              THEN {T_chore} ELSE {})

\* the highest member of a set of types in feat > fix > test > docs > chore,
\* chore for the empty set
ClaimedType(types) ==
    CHOOSE t \in {T_feat, T_fix, T_test, T_docs, T_chore} :
        LET order == <<T_feat, T_fix, T_test, T_docs, T_chore>>
            rank(x) == CHOOSE i \in 1..5 : order[i] = x
        IN  IF types = {} THEN t = T_chore
            ELSE t \in types /\ \A u \in types : rank(t) <= rank(u)

\* C13 as stated: the type of the generic message is the highest-priority
\* member (feat > fix > test > docs > chore, chore for none) of the signals
\* of the diff, each signal collected independently of the others on the
\* same line; an added import line that also contains "fix" resolves to feat.
C13_AsStated ==
    ClassifiedGeneric => SplitFirst(ret, ":") = ClaimedType(ClaimedTypes(arg))

\* the lines of a diff that start with "+" but not "+++", and with "-" but
\* not "---", counted on the diff as given
CountAdded(d) ==
    LET ls == Split(d, "\n")
    IN  Cardinality({i \in 1..Len(ls) :
            StartsWith(ls[i], <<"+">>) /\ ~StartsWith(ls[i], <<"+","+","+">>)})
CountRemoved(d) ==
    LET ls == Split(d, "\n")
    IN  Cardinality({i \in 1..Len(ls) :
            StartsWith(ls[i], <<"-">>) /\ ~StartsWith(ls[i], <<"-","-","-">>)})

\* the description the claim gives a diff with a added and r removed lines
ClaimedDescription(a, r) ==
    IF a > 2 * r THEN D_add ELSE IF r > 2 * a THEN D_remove ELSE D_update

\* every line of a diff is the line "+def handle_request(...)"
OnlyDefLines(d) ==
    LET ls == Split(d, "\n") IN \A i \in 1..Len(ls) : ls[i] = DL_def

\* C14: when no override applies, the message is a type followed by the
\* description chosen from the counts of added and removed lines: "add new
\* features and functionality" when added > 2 x removed, otherwise "remove
\* deprecated code" when removed > 2 x added, otherwise "update and improve
\* codebase"; so a diff with added and without removed lines gets the first,
\* a diff of "+def handle_request(...)" lines gets it with type feat, and a
\* diff without added and removed lines gets the last.
C14_CountTemplate ==
    ClassifiedGeneric =>
        LET a == CountAdded(arg)
            r == CountRemoved(arg)
        IN  /\ \E t \in {T_feat, T_fix, T_test, T_docs, T_chore} :
                  ret = t \o ClaimedDescription(a, r)
            /\ (a >= 1 /\ r = 0) =>
                  \E t \in valid_types : ret = t \o D_add
            /\ OnlyDefLines(arg) => ret = T_feat \o D_add
            /\ (a = 0 /\ r = 0) =>
                  \E t \in valid_types : ret = t \o D_update

\* the classifier answered a diff of two "+def handle_request(...)" lines
\* with "feat: add new features and functionality"
C14_Witness ==
    /\ ClassifiedGeneric
    /\ OnlyDefLines(arg)
    /\ CountAdded(arg) = 2
    /\ ret = T_feat \o D_add

(***************************************************************************)
(* C15.  The order of the inference steps.                                 *)
(***************************************************************************)
\* the requests of one inference attempt, in the order of the steps:
\* liveness check, model discovery, generation
InferenceSteps ==
    <<[by |-> "check_ollama_running", req |-> "GET /api/tags"],
      [by |-> "get_available_models", req |-> "GET /api/tags"],
      [by |-> "generate_with_ollama", req |-> "POST /api/generate"]>>

\* the liveness check was sent and did not get a 200
LivenessFailed == http # <<>> /\ http[1].answer # "200"

\* C15: within one call of generate_commit_message the inference steps run
\* at most once each and in the order liveness check, discovery, selection,
\* generation; after a failed liveness check no further request is sent and
\* the classifier is invoked exactly once; a generation request is only sent
\* after a successful liveness check and a non-empty model discovery.
C15_InferenceOrder ==
    /\ Len(http) <= Len(InferenceSteps)
    /\ \A i \in 1..Len(http) :
          /\ http[i].by = InferenceSteps[i].by
          /\ http[i].req = InferenceSteps[i].req
    /\ fallback_calls <= 1
    /\ LivenessFailed =>
          /\ Len(http) = 1
          /\ Resolved => fallback_calls = 1
    /\ pc = "post" =>
          /\ Len(http) = 2
          /\ available_models # <<>>
          /\ model # None
    /\ Len(http) = 3 =>
          /\ http[1].answer = "200"
          /\ http[2].answer = "models"

\* the liveness check got a 500, and the command went on with the message
\* of the classifier after that one request
C15_Witness ==
    /\ LivenessFailed
    /\ http[1].answer = "500"
    /\ pc = "confirm"
    /\ fallback_calls = 1
    /\ presented = generate_fallback_message(git_diff)

(***************************************************************************)
(* C16.  Validation accepts what it has accepted.                          *)
(***************************************************************************)
\* C16: for every raw output from which the validation accepts a message m,
\* the same validation run on m alone accepts again and does not reject m.
C16_AcceptanceIdempotent ==
    (pc = "return" /\ ret # None) => ValidateOutput(ret) # None

\* a message was accepted out of a second, quoted line with a blank at its
\* end, and validating it again accepts it as a different, shorter message
C16_Witness ==
    /\ pc = "return"
    /\ ret # None
    /\ arg # ret
    /\ ValidateOutput(ret) # None
    /\ ValidateOutput(ret) # ret

(***************************************************************************)
(* C18.  commit, init and issue are gated on authentication.               *)
(***************************************************************************)
\* something the gate protects has run: a git command (diff extraction, git
\* add, commit, push, the commands of init_local_repo), a request or a call
\* of message generation, or a call of the GitHub API for repositories
GatedWork ==
    \/ gitlog # <<>>
    \/ http # <<>>
    \/ fallback_calls > 0
    \/ git_diff # None
    \/ generated_message # None
    \/ github_log # <<>>

\* C18: in commit, init and issue no diff extraction, message generation,
\* git add, commit or push, repository creation or issue listing happens
\* unless authenticate() has returned success first; when it returns
\* failure the process exits with code 1 having run none of them.
C18_GatedOnAuthentication ==
    /\ args.command \in {"commit", "init", "issue"}
    /\ GatedWork => authenticated = "True"
    /\ authenticated = "unasked" => pc = "main"
    /\ authenticated = "False" =>
          /\ pc = "exit"
          /\ exit_code = 1
          /\ ~GatedWork

\* issue was refused: authenticate() returned failure and the process left
\* with code 1 without listing anything
C18_Witness ==
    /\ args.command = "issue"
    /\ authenticated = "False"
    /\ pc = "exit"
    /\ exit_code = 1
    /\ github_log = <<>>

(***************************************************************************)
(* C17.  The configuration record is written back after every change.      *)
(***************************************************************************)
\* C17 as stated: in every run of the auth and config commands each change
\* of the record in memory is followed by save_config before the command
\* returns, so at process exit the stored file equals the record in memory.
C17_AsStated == pc = "exit" => stored = config

====
